---- MODULE Spec2Model ----
(***************************************************************************)
(* State-machine model of src/views/LiveTest.tsx (the LiveTest component). *)
(*                                                                         *)
(* Text is a sequence of tokens.  A token is one character class or one    *)
(* fixed literal of the source: "I" is the literal `[GENERATE_IMAGE:`,     *)
(* "V" is `[GENERATE_VIDEO:`, "]" is `]`, " " is a blank, "\n" a line      *)
(* break, "F" is a code fence, a link token is one URL or one markdown     *)
(* link, any other token is ordinary text.  Fixed strings of the source    *)
(* (error texts, the greeting) are one token each.                         *)
(*                                                                         *)
(* A React commit is modelled with its effects: an action is the handler,  *)
(* the render(s) it causes and the effects of those renders, in the order  *)
(* the effects are declared.  A state update made by a callback outside of *)
(* an event handler (the end of a file read) waits in `queued` until the   *)
(* Render action.  Message timestamps and grounding citations              *)
(* are not modelled.  Every route identifier names a registered bot.       *)
(***************************************************************************)
EXTENDS Integers, Sequences, FiniteSets, TLC

(* ---------------- bounds of the exploration ---------------- *)
MaxClock == 1
MaxSends == 2
MaxChunks == 2
MaxNotes == 2
MaxMounts == 2
MaxWriteFailures == 1
MaxTextLen == 3
MaxAttachments == 2

(* ---------------- fixed data ---------------- *)
Bots == {"A", "B"}
\* bots whose definition has hasImageGen set
ImageBots == {"A"}
DEFAULT_MODEL == "gemini-3-pro-preview"
GEMINI_MODELS == {"gemini-3-pro-preview", "gemini-3-flash-preview"}
INIT_ID == "init"
QUOTA_ERROR == "API kotasi doldu. Lutfen bekleyin."
CONNECTION_ERROR == "Baglanti hatasi olustu."
IMAGE_DONE_TEXT == "Gorsel uretildi."
SYSTEM_BUSY == "SYSTEM_BUSY"
FailureKinds == {SYSTEM_BUSY, "NETWORK"}
Files == {"photo.png", "notes.pdf"}
IMAGE_OPEN == "I"
VIDEO_OPEN == "V"
Tokens == {IMAGE_OPEN, VIDEO_OPEN, "]", " ", "\n", "a"}
Inputs == {<<>>, <<" ">>, <<"a">>}
Fragments == {<<"b">>, <<IMAGE_OPEN, "c", "]">>}
ManualTexts == {<<>>, <<" ">>, <<" ", "n", " ">>}

(* ---------------- text functions ---------------- *)
WhiteSpace == {" ", "\n"}

RECURSIVE TrimLeft(_)
TrimLeft(s) ==
  IF s = <<>> THEN s
  ELSE IF Head(s) \in WhiteSpace THEN TrimLeft(Tail(s)) ELSE s

RECURSIVE TrimRight(_)
TrimRight(s) ==
  IF s = <<>> THEN s
  ELSE IF s[Len(s)] \in WhiteSpace THEN TrimRight(SubSeq(s, 1, Len(s) - 1)) ELSE s

\* String.prototype.trim
Trim(s) == TrimRight(TrimLeft(s))

\* index of the first "]" of s, 0 when there is none
FirstClose(s) ==
  IF \E i \in 1..Len(s) : s[i] = "]"
  THEN CHOOSE i \in 1..Len(s) : s[i] = "]" /\ \A j \in 1..(i - 1) : s[j] # "]"
  ELSE 0

\* s starts right after an opener literal: the length of what
\* `\s*.*?\]` matches at the start of s (0 when it does not match).
\* `\s*` takes blanks and line breaks, `.` takes anything but a line break.
DirectiveBodyLen(s) ==
  LET c == FirstClose(s)
  IN IF c = 0 THEN 0
     ELSE IF \A i \in 1..Len(TrimLeft(SubSeq(s, 1, c - 1))) :
                TrimLeft(SubSeq(s, 1, c - 1))[i] # "\n"
          THEN c ELSE 0

\* text.replace(/\[GENERATE_(IMAGE|VIDEO):\s*.*?\]/g, '')
RECURSIVE RemoveDirectives(_)
RemoveDirectives(s) ==
  IF s = <<>> THEN s
  ELSE IF Head(s) \in {IMAGE_OPEN, VIDEO_OPEN} /\ DirectiveBodyLen(Tail(s)) > 0
       THEN RemoveDirectives(SubSeq(s, 2 + DirectiveBodyLen(Tail(s)), Len(s)))
       ELSE <<Head(s)>> \o RemoveDirectives(Tail(s))

\* fullText.match(/\[GENERATE_IMAGE:\s*(.*?)\]/): matched, and group 1
RECURSIVE ImgMatch(_)
ImgMatch(s) ==
  IF s = <<>> THEN [matched |-> FALSE, prompt |-> <<>>]
  ELSE IF Head(s) = IMAGE_OPEN /\ DirectiveBodyLen(Tail(s)) > 0
       THEN [matched |-> TRUE,
             prompt |-> TrimLeft(SubSeq(Tail(s), 1, DirectiveBodyLen(Tail(s)) - 1))]
       ELSE ImgMatch(Tail(s))

\* text.includes(tok) for a one-token literal
Includes(s, tok) == \E i \in 1..Len(s) : s[i] = tok

(* ---------------- state ---------------- *)
VARIABLES
  mounted, crashed, id,
  messages, input, attachments, isLoading, isGeneratingMedia, chatSession,
  selectedModel, manualNoteText, panoNotes,
  chatStore, modelStore, panoStore,
  reading, sends, now,
  sendCount, mountCount, writeFailures,
  linkToConfirm, navigations, queued

vars == <<mounted, crashed, id,
  messages, input, attachments, isLoading, isGeneratingMedia, chatSession,
  selectedModel, manualNoteText, panoNotes,
  chatStore, modelStore, panoStore,
  reading, sends, now,
  sendCount, mountCount, writeFailures,
  linkToConfirm, navigations, queued>>

(* ---------------- key-value storage ---------------- *)
\* localStorage.getItem gives null: no entry
Absent == [present |-> FALSE, ok |-> FALSE, val |-> <<>>]
\* an entry whose text JSON.parse rejects
Corrupt == [present |-> TRUE, ok |-> FALSE, val |-> <<>>]
\* JSON.stringify(v): an entry that JSON.parse reads back as v
JSONstringify(v) == [present |-> TRUE, ok |-> TRUE, val |-> v]
NoModel == [present |-> FALSE, val |-> ""]

\* the message objects of the component
InitMessage == [id |-> INIT_ID, role |-> "model", text |-> <<"Session initialized">>,
                type |-> "none", mediaUrl |-> "none"]
NoSession == [bot |-> "none", history |-> <<>>, model |-> "none"]

\* lines 86-94: initial value of messages
InitialMessages(cs, b) ==
  IF cs[b].present THEN (IF cs[b].ok THEN cs[b].val ELSE <<>>) ELSE <<>>

\* lines 123-135: initial value of panoNotes (source defaults to 'bot')
InitialNotes(ps, b) ==
  IF ps[b].present
  THEN (IF ps[b].ok
        THEN [i \in 1..Len(ps[b].val) |->
                [ps[b].val[i] EXCEPT !.source =
                   IF ps[b].val[i].source = "" THEN "bot" ELSE ps[b].val[i].source]]
        ELSE <<>>)
  ELSE <<>>

\* lines 108-110: initial value of selectedModel
InitialModel(ms, b) ==
  IF ms[b].present /\ ms[b].val # "" THEN ms[b].val ELSE DEFAULT_MODEL

\* lines 200-202: the prior turns handed to createBotChat
History(m) ==
  LET kept == SelectSeq(m, LAMBDA x : x.id # INIT_ID /\ x.text # <<>>
                                      /\ ~Includes(x.text, QUOTA_ERROR))
  IN [i \in 1..Len(kept) |-> [role |-> kept[i].role, text |-> kept[i].text]]

\* createBotChat(bot, history, selectedModel)
createBotChat(b, history, model) == [bot |-> b, history |-> history, model |-> model]

\* lines 139-158: the state updates the rehydration effect schedules,
\* read from the storage as it is when the effect runs
Rehydrate(S) ==
  [messages |-> IF S.chatStore[S.id].present /\ S.chatStore[S.id].ok
                THEN S.chatStore[S.id].val ELSE <<InitMessage>>,
   notesSet |-> S.panoStore[S.id].present /\ S.panoStore[S.id].ok,
   panoNotes |-> IF S.panoStore[S.id].present /\ S.panoStore[S.id].ok
                 THEN S.panoStore[S.id].val ELSE S.panoNotes,
   selectedModel |-> IF S.modelStore[S.id].present /\ S.modelStore[S.id].val # ""
                     THEN S.modelStore[S.id].val ELSE S.selectedModel]

\* lines 207-212 without the test of the length
PersistMessages_NoLengthTest(S, w) ==
  IF w # "chat"
  THEN [S EXCEPT !.chatStore[S.id] = JSONstringify(S.messages)]
  ELSE S

\* lines 207-212: persist the message list; a throwing setItem is caught
PersistMessages(S, w) ==
  IF Len(S.messages) > 0 /\ w # "chat"
  THEN [S EXCEPT !.chatStore[S.id] = JSONstringify(S.messages)]
  ELSE S

\* lines 214-219: persist model and notes; a throwing setItem leaves the effect
PersistModelAndNotes(S, w) ==
  IF w = "model" THEN [S EXCEPT !.crashed = TRUE]
  ELSE IF w = "pano"
       THEN [S EXCEPT !.modelStore[S.id] = [present |-> TRUE, val |-> S.selectedModel],
                      !.crashed = TRUE]
       ELSE [S EXCEPT !.modelStore[S.id] = [present |-> TRUE, val |-> S.selectedModel],
                      !.panoStore[S.id] = JSONstringify(S.panoNotes)]

\* the two persistence effects of one commit, in declaration order;
\* c says which dependencies changed since the previous render
Persist(S, c, w) ==
  LET S1 == IF c.msgCh \/ c.idCh THEN PersistMessages(S, w) ELSE S
  IN IF c.modelCh \/ c.notesCh \/ c.idCh THEN PersistModelAndNotes(S1, w) ELSE S1

\* lines 198-205: the session effect of one commit
SessionEffect(S, c, old) ==
  IF c.idCh \/ c.modelCh
  THEN createBotChat(S.id, History(S.messages), S.selectedModel)
  ELSE old

\* One commit and the commit its effects cause.  The effects of a commit see
\* the state of that render; the updates they schedule are rendered together
\* afterwards, and the effects whose dependencies changed run again.
Commit(S, c, w) ==
  LET r == Rehydrate(S)
      sess1 == SessionEffect(S, c, S.chatSession)
      P1 == Persist(S, c, w)
  IN IF P1.crashed THEN P1
     ELSE IF ~c.idCh THEN [P1 EXCEPT !.chatSession = sess1]
     ELSE LET S2 == [P1 EXCEPT !.messages = r.messages,
                               !.panoNotes = r.panoNotes,
                               !.selectedModel = r.selectedModel,
                               !.chatSession = sess1]
              c2 == [idCh |-> FALSE, msgCh |-> TRUE,
                     modelCh |-> r.selectedModel # S.selectedModel,
                     notesCh |-> r.notesSet]
              P2 == Persist(S2, c2, w)
          IN IF P2.crashed THEN P2
             ELSE [P2 EXCEPT !.chatSession = SessionEffect(S2, c2, sess1)]

MessagesChanged == [idCh |-> FALSE, msgCh |-> TRUE, modelCh |-> FALSE, notesCh |-> FALSE]
NotesChanged == [idCh |-> FALSE, msgCh |-> FALSE, modelCh |-> FALSE, notesCh |-> TRUE]
ModelChanged == [idCh |-> FALSE, msgCh |-> FALSE, modelCh |-> TRUE, notesCh |-> FALSE]
IdChanged == [idCh |-> TRUE, msgCh |-> FALSE, modelCh |-> FALSE, notesCh |-> FALSE]

\* the part of the state the effects read and write
Cur ==
  [id |-> id, messages |-> messages, panoNotes |-> panoNotes,
   selectedModel |-> selectedModel, chatSession |-> chatSession,
   chatStore |-> chatStore, modelStore |-> modelStore, panoStore |-> panoStore,
   crashed |-> crashed]

\* the outcomes of the setItem calls of one action: all succeed, or the
\* writes of one item throw (quota exceeded)
WriteOutcomes ==
  IF writeFailures < MaxWriteFailures THEN {"none", "chat", "model", "pano"} ELSE {"none"}

Install(R, w) ==
  /\ id' = R.id
  /\ messages' = R.messages
  /\ panoNotes' = R.panoNotes
  /\ selectedModel' = R.selectedModel
  /\ chatSession' = R.chatSession
  /\ chatStore' = R.chatStore
  /\ modelStore' = R.modelStore
  /\ panoStore' = R.panoStore
  /\ crashed' = R.crashed
  /\ writeFailures' = writeFailures + (IF w = "none" THEN 0 ELSE 1)

(* ---------------- initial state: the page is not loaded ---------------- *)
Init ==
  /\ mounted = FALSE
  /\ crashed = FALSE
  /\ id = "A"
  /\ messages = <<>>
  /\ input = <<>>
  /\ attachments = <<>>
  /\ isLoading = FALSE
  /\ isGeneratingMedia = "none"
  /\ chatSession = NoSession
  /\ selectedModel = DEFAULT_MODEL
  /\ manualNoteText = <<>>
  /\ panoNotes = <<>>
  /\ chatStore = [b \in Bots |-> Absent]
  /\ modelStore = [b \in Bots |-> NoModel]
  /\ panoStore = [b \in Bots |-> Absent]
  /\ reading = {}
  /\ sends = <<>>
  /\ now = 0
  /\ sendCount = 0
  /\ mountCount = 0
  /\ writeFailures = 0
  /\ linkToConfirm = "none"
  /\ navigations = <<>>
  /\ queued = <<>>

\* the component is alive: handlers and callbacks have an effect
Alive == mounted /\ ~crashed

\* lines 69-135 and the effects of the first commit: the page is loaded on
\* the route of bot b
Mount(b, w) ==
  /\ ~mounted
  /\ mountCount < MaxMounts
  /\ LET S0 == [Cur EXCEPT !.id = b,
                           !.messages = InitialMessages(chatStore, b),
                           !.panoNotes = InitialNotes(panoStore, b),
                           !.selectedModel = InitialModel(modelStore, b),
                           !.chatSession = NoSession,
                           !.crashed = FALSE]
     IN Install(Commit(S0, IdChanged, w), w)
  /\ mounted' = TRUE
  /\ mountCount' = mountCount + 1
  /\ input' = <<>>
  /\ attachments' = <<>>
  /\ isLoading' = FALSE
  /\ isGeneratingMedia' = "none"
  /\ manualNoteText' = <<>>
  /\ reading' = {}
  /\ sends' = <<>>
  /\ linkToConfirm' = "none"
  /\ queued' = <<>>
  /\ UNCHANGED <<now, sendCount, navigations>>

\* the page is closed or reloaded: the component, its state and its pending
\* callbacks go, the storage stays
Unload ==
  /\ mounted
  /\ mountCount < MaxMounts
  /\ mounted' = FALSE
  /\ crashed' = FALSE
  /\ id' = "A"
  /\ messages' = <<>>
  /\ input' = <<>>
  /\ attachments' = <<>>
  /\ isLoading' = FALSE
  /\ isGeneratingMedia' = "none"
  /\ chatSession' = NoSession
  /\ selectedModel' = DEFAULT_MODEL
  /\ manualNoteText' = <<>>
  /\ panoNotes' = <<>>
  /\ sends' = <<>>
  /\ reading' = {}
  /\ linkToConfirm' = "none"
  /\ queued' = <<>>
  /\ UNCHANGED <<chatStore, modelStore, panoStore, now, sendCount,
                 mountCount, writeFailures, navigations>>

\* lines 139-158, 198-219 and 416: the route changes to bot b
ChangeBot(b, w) ==
  /\ Alive
  /\ b # id
  /\ Install(Commit([Cur EXCEPT !.id = b], IdChanged, w), w)
  /\ UNCHANGED <<linkToConfirm, navigations, queued, mounted, input, attachments,
                 isLoading, isGeneratingMedia,
                 manualNoteText, reading, sends, now,
                 sendCount, mountCount>>

(* ---------------- compose form ---------------- *)
\* line 489: onChange of the compose field
SetInput(t) ==
  /\ Alive
  /\ input' = t
  /\ UNCHANGED <<linkToConfirm, navigations, queued, mounted, crashed, id, messages,
                 attachments, isLoading,
                 isGeneratingMedia, chatSession, selectedModel, manualNoteText,
                 panoNotes, chatStore, modelStore, panoStore, reading, sends,
                 now, sendCount, mountCount, writeFailures>>

\* file.type of the files the user can pick
MimeType(f) == IF f = "photo.png" THEN "image/png" ELSE "application/pdf"

\* type.startsWith('image')
StartsWithImage(mime) == mime \in {"image/png"}

\* lines 258-270: a file is picked, its read starts
handleFileSelect(f) ==
  /\ Alive
  /\ f \notin reading
  /\ Len(attachments) + Len(queued) + Cardinality(reading) < MaxAttachments
  /\ reading' = reading \cup {f}
  /\ UNCHANGED <<linkToConfirm, navigations, queued, mounted, crashed, id, messages,
                 input, attachments, isLoading,
                 isGeneratingMedia, chatSession, selectedModel, manualNoteText,
                 panoNotes, chatStore, modelStore, panoStore, sends,
                 now, sendCount, mountCount, writeFailures>>

\* lines 262-265: reader.onloadend of the read of f.  The callback runs
\* outside of React's event handlers: its updater is queued, and the
\* component is rendered with it later (at once, when React renders
\* synchronously).
onloadend(f) ==
  /\ Alive
  /\ f \in reading
  /\ reading' = reading \ {f}
  /\ queued' = Append(queued, [file |-> f, type |-> MimeType(f)])
  /\ UNCHANGED <<linkToConfirm, navigations, attachments, mounted, crashed, id, messages,
                 input, isLoading,
                 isGeneratingMedia, chatSession, selectedModel, manualNoteText,
                 panoNotes, chatStore, modelStore, panoStore, sends,
                 now, sendCount, mountCount, writeFailures>>

\* line 97: React renders the component with the updaters that the readers
\* queued (line 264), in the order of their calls
Render ==
  /\ Alive
  /\ queued # <<>>
  /\ attachments' = attachments \o queued
  /\ queued' = <<>>
  /\ UNCHANGED <<linkToConfirm, navigations, mounted, crashed, id, messages, input,
                 isLoading,
                 isGeneratingMedia, chatSession, selectedModel, manualNoteText,
                 panoNotes, chatStore, modelStore, panoStore, reading, sends,
                 now, sendCount, mountCount, writeFailures>>

\* line 483: the remove button of the i-th pending attachment
RemoveAttachment(i) ==
  /\ Alive
  /\ i \in 1..Len(attachments)
  /\ attachments' = SubSeq(attachments, 1, i - 1) \o SubSeq(attachments, i + 1, Len(attachments))
  /\ UNCHANGED <<linkToConfirm, navigations, queued, mounted, crashed, id, messages,
                 input, isLoading,
                 isGeneratingMedia, chatSession, selectedModel, manualNoteText,
                 panoNotes, chatStore, modelStore, panoStore, reading, sends,
                 now, sendCount, mountCount, writeFailures>>

\* Date.now() moves on
Tick ==
  /\ now < MaxClock
  /\ now' = now + 1
  /\ UNCHANGED <<linkToConfirm, navigations, queued, mounted, crashed, id, messages,
                 input, attachments, isLoading,
                 isGeneratingMedia, chatSession, selectedModel, manualNoteText,
                 panoNotes, chatStore, modelStore, panoStore, reading, sends,
                 sendCount, mountCount, writeFailures>>

(* ---------------- send ---------------- *)
\* line 281 without the isLoading test
SendRejected_NoLoadingTest ==
  \/ (Trim(input) = <<>> /\ Len(attachments) = 0)
  \/ chatSession = NoSession

\* line 281 without the test of the compose text
SendRejected_NoEmptyTest ==
  \/ chatSession = NoSession
  \/ isLoading

\* line 281: the early return of send
SendRejected ==
  \/ (Trim(input) = <<>> /\ Len(attachments) = 0)
  \/ chatSession = NoSession
  \/ isLoading

\* lines 284-285: the user message
UserMessage(t, userText, cur) ==
  [id |-> ToString(t), role |-> "user", text |-> userText,
   type |-> IF Len(cur) > 0 /\ StartsWithImage(cur[1].type)
            THEN "image" ELSE "text",
   mediaUrl |-> IF Len(cur) > 0 THEN cur[1].file ELSE "none"]

\* line 288: the placeholder of the reply
Placeholder(botMsgId) ==
  [id |-> botMsgId, role |-> "model", text |-> <<>>, type |-> "none", mediaUrl |-> "none"]

\* lines 290-295: the payload of the chat request
Payload(userText, cur) ==
  IF Len(cur) > 0
  THEN [text |-> IF userText = <<>> THEN <<"Analiz et.">> ELSE userText, files |-> cur]
  ELSE [text |-> userText, files |-> <<>>]

\* the values Date.now() can return for the second identifier of a send
SecondDraws == {t \in {now, now + 1} : t <= MaxClock}

\* lines 280-297: send, up to the call of sendMessageWithGrounding.  A send
\* in flight is a record of sends: the locals of that call of send and the
\* request it issued.  send reads input and attachments of the render its
\* handler belongs to; setAttachments([]) comes after the queued updaters.
send(t2, w) ==
  /\ Alive
  /\ IF SendRejected
     THEN UNCHANGED <<id, messages, input, attachments, queued, isLoading, chatSession,
                      selectedModel, panoNotes, chatStore, modelStore, panoStore,
                      crashed, sends, now, sendCount, writeFailures>>
     ELSE /\ sendCount < MaxSends
          /\ t2 \in SecondDraws
          /\ input' = <<>>
          /\ attachments' = <<>>
          /\ queued' = <<>>
          /\ isLoading' = TRUE
          /\ sends' = Append(sends,
               [botMsgId |-> ToString(t2 + 1), fullText |-> <<>>, chunks |-> 0,
                phase |-> "streaming", bot |-> id, session |-> chatSession,
                payload |-> Payload(input, attachments), prompt |-> <<>>])
          /\ Install(Commit([Cur EXCEPT !.messages =
                               messages \o <<UserMessage(now, input, attachments),
                                             Placeholder(ToString(t2 + 1))>>],
                            MessagesChanged, w), w)
          /\ now' = t2
          /\ sendCount' = sendCount + 1
  /\ UNCHANGED <<linkToConfirm, navigations, mounted, isGeneratingMedia, manualNoteText,
                 reading, mountCount>>

\* s without its i-th element
RemoveAt(s, i) == SubSeq(s, 1, i - 1) \o SubSeq(s, i + 1, Len(s))

\* line 299: the updater of a fragment callback
WithText(m, botMsgId, text) ==
  [k \in 1..Len(m) |-> IF m[k].id = botMsgId THEN [m[k] EXCEPT !.text = text] ELSE m[k]]

\* lines 297-300: the callback of sendMessageWithGrounding delivers a fragment
\* to the i-th send in flight
onChunk(i, chunk, w) ==
  /\ Alive
  /\ i \in 1..Len(sends)
  /\ sends[i].phase = "streaming"
  /\ sends[i].chunks < MaxChunks
  /\ sends' = [sends EXCEPT ![i].fullText = sends[i].fullText \o chunk,
                            ![i].chunks = sends[i].chunks + 1]
  /\ Install(Commit([Cur EXCEPT !.messages =
                       WithText(messages, sends[i].botMsgId, sends[i].fullText \o chunk)],
                    MessagesChanged, w), w)
  /\ UNCHANGED <<linkToConfirm, navigations, queued, mounted, input, attachments,
                 isLoading, isGeneratingMedia,
                 manualNoteText, reading, now, sendCount, mountCount>>

\* line 302 without the test of hasImageGen
WantsImage_AnyBot(sd) == ImgMatch(sd.fullText).matched

\* line 302: the condition of the image request
WantsImage(sd) == ImgMatch(sd.fullText).matched /\ sd.bot \in ImageBots

\* lines 301-304 and 311: the stream of the i-th send ends without error
StreamDone(i) ==
  /\ Alive
  /\ i \in 1..Len(sends)
  /\ sends[i].phase = "streaming"
  /\ IF WantsImage(sends[i])
     THEN /\ isGeneratingMedia' = "image"
          /\ sends' = [sends EXCEPT ![i].phase = "image",
                                    ![i].prompt = ImgMatch(sends[i].fullText).prompt]
          /\ UNCHANGED isLoading
     ELSE /\ isLoading' = FALSE
          /\ sends' = RemoveAt(sends, i)
          /\ UNCHANGED isGeneratingMedia
  /\ UNCHANGED <<linkToConfirm, navigations, queued, mounted, crashed, id, messages,
                 input, attachments, chatSession,
                 selectedModel, manualNoteText, panoNotes, chatStore, modelStore,
                 panoStore, reading, now, sendCount, mountCount, writeFailures>>

\* line 309: the text put in place of the reply
ErrorText(kind) == IF kind = SYSTEM_BUSY THEN <<QUOTA_ERROR>> ELSE <<CONNECTION_ERROR>>

\* onError without the finally block of line 311
onError_NoFinally(i, kind, w) ==
  /\ Alive
  /\ i \in 1..Len(sends)
  /\ Install(Commit([Cur EXCEPT !.messages =
                       WithText(messages, sends[i].botMsgId, ErrorText(kind))],
                    MessagesChanged, w), w)
  /\ sends' = RemoveAt(sends, i)
  /\ UNCHANGED <<linkToConfirm, navigations, queued, mounted, input, attachments, isLoading,
                 isGeneratingMedia, manualNoteText, reading, now, sendCount, mountCount>>

\* lines 308-311: the request of the i-th send fails (the chat request while
\* streaming, the image request after it)
onError(i, kind, w) ==
  /\ Alive
  /\ i \in 1..Len(sends)
  /\ Install(Commit([Cur EXCEPT !.messages =
                       WithText(messages, sends[i].botMsgId, ErrorText(kind))],
                    MessagesChanged, w), w)
  /\ isLoading' = FALSE
  /\ sends' = RemoveAt(sends, i)
  /\ UNCHANGED <<linkToConfirm, navigations, queued, mounted, input, attachments,
                 isGeneratingMedia,
                 manualNoteText, reading, now, sendCount, mountCount>>

\* line 305: the message of a generated image
ImageMessage(t, url) ==
  [id |-> ToString(t), role |-> "model", text |-> <<IMAGE_DONE_TEXT>>,
   type |-> "image", mediaUrl |-> url]

\* lines 304-306 and 311: generateImage returns for the i-th send
ImageDone(i, w) ==
  /\ Alive
  /\ i \in 1..Len(sends)
  /\ sends[i].phase = "image"
  /\ Install(Commit([Cur EXCEPT !.messages =
                       Append(messages, ImageMessage(now, "generated.png"))],
                    MessagesChanged, w), w)
  /\ isGeneratingMedia' = "none"
  /\ isLoading' = FALSE
  /\ sends' = RemoveAt(sends, i)
  /\ UNCHANGED <<linkToConfirm, navigations, queued, mounted, input, attachments,
                 manualNoteText, reading, now,
                 sendCount, mountCount>>

\* line 517: the confirm button of the reset dialog
ResetChat(w) ==
  /\ Alive
  /\ Install(Commit([Cur EXCEPT !.messages = <<>>, !.chatStore[id] = Absent],
                    MessagesChanged, w), w)
  /\ UNCHANGED <<linkToConfirm, navigations, queued, mounted, input, attachments,
                 isLoading, isGeneratingMedia,
                 manualNoteText, reading, sends, now, sendCount, mountCount>>

(* ---------------- model selection and notes ---------------- *)
\* line 411: a model is picked in the switcher
SelectModel(m, w) ==
  /\ Alive
  /\ m # selectedModel
  /\ Install(Commit([Cur EXCEPT !.selectedModel = m], ModelChanged, w), w)
  /\ UNCHANGED <<linkToConfirm, navigations, queued, mounted, input, attachments,
                 isLoading, isGeneratingMedia,
                 manualNoteText, reading, sends, now, sendCount, mountCount>>

\* line 507: onChange of the note form
SetManualNoteText(t) ==
  /\ Alive
  /\ manualNoteText' = t
  /\ UNCHANGED <<linkToConfirm, navigations, queued, mounted, crashed, id, messages,
                 input, attachments, isLoading,
                 isGeneratingMedia, chatSession, selectedModel, panoNotes,
                 chatStore, modelStore, panoStore, reading, sends, now,
                 sendCount, mountCount, writeFailures>>

\* line 229 without the replace
CleanText_KeepsDirectives(text) == Trim(text)

\* lines 231 and 238 with the note put last
Prepend_AtEnd(note, notes) == Append(notes, note)

\* line 229: the text of a note saved from a message
CleanText(text) == Trim(RemoveDirectives(text))

\* lines 231 and 238: the new note list
Prepend(note, notes) == <<note>> \o notes

\* lines 228-234: the save button of the k-th message
handleSaveToPano(k, w) ==
  /\ Alive
  /\ k \in 1..Len(messages)
  /\ IF CleanText(messages[k].text) = <<>>
     THEN UNCHANGED <<id, messages, panoNotes, selectedModel, chatSession, chatStore,
                      modelStore, panoStore, crashed, writeFailures>>
     ELSE /\ Len(panoNotes) < MaxNotes
          /\ Install(Commit([Cur EXCEPT !.panoNotes =
                               Prepend([id |-> ToString(now),
                                        text |-> CleanText(messages[k].text),
                                        source |-> "bot"], panoNotes)],
                            NotesChanged, w), w)
  /\ UNCHANGED <<linkToConfirm, navigations, queued, mounted, input, attachments,
                 isLoading, isGeneratingMedia,
                 manualNoteText, reading, sends, now, sendCount, mountCount>>

\* lines 236-240: the save button of the note form
handleManualNoteSave(w) ==
  /\ Alive
  /\ IF Trim(manualNoteText) = <<>>
     THEN UNCHANGED <<id, messages, panoNotes, selectedModel, chatSession, chatStore,
                      modelStore, panoStore, crashed, writeFailures, manualNoteText>>
     ELSE /\ Len(panoNotes) < MaxNotes
          /\ Install(Commit([Cur EXCEPT !.panoNotes =
                               Prepend([id |-> ToString(now),
                                        text |-> Trim(manualNoteText),
                                        source |-> "user"], panoNotes)],
                            NotesChanged, w), w)
          /\ manualNoteText' = <<>>
  /\ UNCHANGED <<linkToConfirm, navigations, queued, mounted, input, attachments,
                 isLoading, isGeneratingMedia,
                 reading, sends, now, sendCount, mountCount>>

\* something outside the component (another version, the user) leaves an
\* entry of bot b that JSON.parse rejects; kind is "chat" or "pano"
CorruptStorage(b, kind) ==
  /\ ~mounted
  /\ IF kind = "chat"
     THEN chatStore' = [chatStore EXCEPT ![b] = Corrupt] /\ UNCHANGED panoStore
     ELSE panoStore' = [panoStore EXCEPT ![b] = Corrupt] /\ UNCHANGED chatStore
  /\ UNCHANGED <<linkToConfirm, navigations, queued, mounted, crashed, id, messages,
                 input, attachments, isLoading,
                 isGeneratingMedia, chatSession, selectedModel, manualNoteText,
                 panoNotes, modelStore, reading, sends, now, sendCount,
                 mountCount, writeFailures>>

(* ---------------- the component ---------------- *)
Next ==
  \/ \E b \in Bots, k \in {"chat", "pano"} : CorruptStorage(b, k)
  \/ \E b \in Bots, w \in WriteOutcomes : Mount(b, w)
  \/ Unload
  \/ \E b \in Bots, w \in WriteOutcomes : ChangeBot(b, w)
  \/ \E t \in Inputs : SetInput(t)
  \/ \E f \in Files : handleFileSelect(f)
  \/ \E f \in Files : onloadend(f)
  \/ Render
  \/ \E i \in 1..MaxAttachments : RemoveAttachment(i)
  \/ Tick
  \/ \E t2 \in 0..MaxClock, w \in WriteOutcomes : send(t2, w)
  \/ \E i \in 1..MaxSends, c \in Fragments, w \in WriteOutcomes : onChunk(i, c, w)
  \/ \E i \in 1..MaxSends : StreamDone(i)
  \/ \E i \in 1..MaxSends, k \in FailureKinds, w \in WriteOutcomes : onError(i, k, w)
  \/ \E i \in 1..MaxSends, w \in WriteOutcomes : ImageDone(i, w)
  \/ \E w \in WriteOutcomes : ResetChat(w)
  \/ \E m \in GEMINI_MODELS, w \in WriteOutcomes : SelectModel(m, w)
  \/ \E t \in ManualTexts : SetManualNoteText(t)
  \/ \E k \in 1..(2 * MaxSends + 2), w \in WriteOutcomes : handleSaveToPano(k, w)
  \/ \E w \in WriteOutcomes : handleManualNoteSave(w)

Spec == Init /\ [][Next]_vars

(* The send lifecycle: everything that reads or writes the message list, the
   compose form, the loading flag, the session and the chat history entry.
   One file at a time is picked. *)
NoFailure == {"none"}
SendFiles == {"photo.png"}
\* no file is being read, waits for a render or is pending
NoFilePending == attachments = <<>> /\ queued = <<>> /\ reading = {}

NextSend ==
  \/ \E b \in Bots, w \in NoFailure : Mount(b, w)
  \/ \E t \in Inputs : SetInput(t)
  \/ \E f \in SendFiles : NoFilePending /\ handleFileSelect(f)
  \/ \E f \in SendFiles : onloadend(f)
  \/ Render
  \/ \E i \in 1..MaxAttachments : RemoveAttachment(i)
  \/ Tick
  \/ \E t2 \in 0..MaxClock, w \in NoFailure : send(t2, w)
  \/ \E i \in 1..MaxSends, c \in Fragments, w \in NoFailure : onChunk(i, c, w)
  \/ \E i \in 1..MaxSends : StreamDone(i)
  \/ \E i \in 1..MaxSends, k \in FailureKinds, w \in NoFailure : onError(i, k, w)
  \/ \E i \in 1..MaxSends, w \in NoFailure : ImageDone(i, w)
  \/ \E w \in NoFailure : ResetChat(w)

SpecSend == Init /\ [][NextSend]_vars

(* The session state: everything that reads or writes the storage, the bot
   identifier, the notes and the model selection. *)
NextSession ==
  \/ \E b \in Bots, k \in {"chat", "pano"} : CorruptStorage(b, k)
  \/ \E b \in Bots, w \in WriteOutcomes : Mount(b, w)
  \/ Unload
  \/ \E b \in Bots, w \in WriteOutcomes : ChangeBot(b, w)
  \/ \E w \in WriteOutcomes : ResetChat(w)
  \/ \E m \in GEMINI_MODELS, w \in WriteOutcomes : SelectModel(m, w)
  \/ \E t \in ManualTexts : SetManualNoteText(t)
  \/ \E k \in 1..(2 * MaxSends + 2), w \in WriteOutcomes : handleSaveToPano(k, w)
  \/ \E w \in WriteOutcomes : handleManualNoteSave(w)

SpecSession == Init /\ [][NextSession]_vars

(* Bot changes during the send lifecycle: the route changes and the chat is
   reset while a reply streams.  The compose field holds one text. *)
SwitchInputs == {<<"a">>}

NextSwitch ==
  \/ \E b \in Bots, w \in NoFailure : Mount(b, w)
  \/ \E b \in Bots, w \in NoFailure : ChangeBot(b, w)
  \/ \E t \in SwitchInputs : SetInput(t)
  \/ \E t2 \in 0..MaxClock, w \in NoFailure : send(t2, w)
  \/ \E i \in 1..MaxSends, c \in Fragments, w \in NoFailure : onChunk(i, c, w)
  \/ \E i \in 1..MaxSends : StreamDone(i)
  \/ \E i \in 1..MaxSends, k \in FailureKinds, w \in NoFailure : onError(i, k, w)
  \/ \E i \in 1..MaxSends, w \in NoFailure : ImageDone(i, w)
  \/ \E w \in NoFailure : ResetChat(w)

SpecSwitch == Init /\ [][NextSwitch]_vars

(* ======================= properties ======================= *)
\* a send attempt, whatever the clock and the storage do
SendAttempt == \E t2 \in 0..MaxClock, w \in WriteOutcomes : send(t2, w)

\* C1: at most one chat request is in flight, and while a send has not
\* finished no send attempt issues a request or changes the message list,
\* the compose text or the pending attachments.
C1_SingleSendInFlight ==
  /\ Len(sends) <= 1
  /\ Len(sends) = 1 => ~ENABLED <<SendAttempt>>_<<messages, input, attachments, sends>>

\* a second send is attempted with text in the compose field while the reply
\* of the first one streams
C1_Witness ==
  /\ Alive
  /\ Len(sends) = 1
  /\ sends[1].chunks > 0
  /\ Trim(input) # <<>>
  /\ sendCount < MaxSends

\* C2: with an empty or blank compose text and no pending attachment, a send
\* attempt changes neither the message list, the compose text, the attachment
\* list nor the loading flag, and issues no request.
C2_EmptySendIsNoOp ==
  (Trim(input) = <<>> /\ Len(attachments) = 0)
    => ~ENABLED <<SendAttempt>>_<<messages, input, attachments, isLoading, sends>>

\* a blank compose text, nothing pending, no send in flight, a session present
C2_Witness ==
  /\ Alive
  /\ input = <<" ">>
  /\ Len(attachments) = 0
  /\ ~isLoading
  /\ chatSession # NoSession
  /\ sendCount < MaxSends

\* the positions of the message list a step changes
Changed == {k \in 1..Len(messages) : k <= Len(messages') /\ messages'[k] # messages[k]}

\* the step delivers a fragment to the i-th send in flight
ChunkStep(i) ==
  /\ i \in 1..Len(sends)
  /\ Len(sends') = Len(sends)
  /\ sends'[i].chunks = sends[i].chunks + 1

\* C3: after each fragment callback the placeholder's text is the
\* concatenation, in arrival order, of the fragments received so far, and
\* every other message of the list is unchanged by the callback.
C3_FragmentTouchesOnlyPlaceholder ==
  [][\A i \in 1..MaxSends : ChunkStep(i) =>
        /\ sends'[i].fullText = sends[i].fullText \o
             SubSeq(sends'[i].fullText, Len(sends[i].fullText) + 1, Len(sends'[i].fullText))
        /\ Len(messages') = Len(messages)
        /\ \A k \in 1..Len(messages) :
             messages[k].id = sends[i].botMsgId => messages'[k].text = sends'[i].fullText
        /\ Cardinality(Changed) <= 1]_vars

\* the step is the failure of a send that replaced some text
FailStep ==
  /\ Len(sends') = Len(sends) - 1
  /\ Len(messages') = Len(messages)
  /\ messages' # messages

\* C4: when an accepted send fails, the placeholder of that send gets the
\* quota text or the connectivity text, no other message changes and no
\* request is issued again.
C4_FailureTouchesOnlyPlaceholder ==
  [][FailStep =>
        /\ Cardinality(Changed) = 1
        /\ \A k \in Changed :
             /\ messages'[k].text \in {<<QUOTA_ERROR>>, <<CONNECTION_ERROR>>}
             /\ messages'[k] = [messages[k] EXCEPT !.text = messages'[k].text]
        /\ sendCount' = sendCount]_vars

\* C6: the identifiers of the messages of the list are pairwise distinct.
C6_MessageIdsDistinct ==
  \A i, j \in 1..Len(messages) : i # j => messages[i].id # messages[j].id

\* a confirmed reset and a fragment callback, whatever the storage does
ResetAttempt == \E w \in WriteOutcomes : ResetChat(w)
ChunkAttempt == \E i \in 1..MaxSends, c \in Fragments, w \in WriteOutcomes : onChunk(i, c, w)

\* the message list is empty and the bot has no chat history entry
ChatCleared == messages = <<>> /\ ~chatStore[id].present

\* C5: a confirmed reset, in any state, leaves the message list empty and the
\* chat history entry of the current bot absent, and a fragment that arrives
\* afterwards re-creates neither a message nor the entry.
C5_ResetClearsChat ==
  /\ ~ENABLED (ResetAttempt /\ ~ChatCleared')
  /\ ChatCleared => ~ENABLED (ChunkAttempt /\ ~ChatCleared')

\* the chat was reset while a reply streams, a fragment has arrived and
\* another one can
C5_Witness ==
  /\ Alive
  /\ ChatCleared
  /\ Len(sends) = 1
  /\ sends[1].phase = "streaming"
  /\ sends[1].chunks = 1

\* the step changes the route from one bot to another and no write fails
SwitchStep ==
  /\ mounted /\ mounted'
  /\ id' # id
  /\ writeFailures' = writeFailures

\* C7: after the identifier changes to another bot and the effects have
\* settled, the messages, the model and the notes in memory are those
\* persisted under the new bot's keys (the defaults when nothing is
\* persisted), and the new bot's entries hold nothing else.
C7_StatePerBot ==
  [][SwitchStep =>
        /\ messages' = (IF chatStore[id'].present /\ chatStore[id'].ok
                        THEN chatStore[id'].val ELSE <<InitMessage>>)
        /\ panoNotes' = InitialNotes(panoStore, id')
        /\ selectedModel' = InitialModel(modelStore, id')
        /\ chatStore'[id'] = JSONstringify(messages')
        /\ panoStore'[id'] = JSONstringify(panoNotes')
        /\ modelStore'[id'] = [present |-> TRUE, val |-> selectedModel']]_vars

\* the step rehydrates: the page is loaded, or the route changes
RehydrateStep == mounted' /\ (~mounted \/ id' # id)

\* C9: when the persisted chat history or notes of the bot cannot be parsed,
\* rehydration (at first mount and on identifier change) gives an empty
\* collection for that item and raises no error.
C9_CorruptGivesEmpty ==
  [][RehydrateStep =>
        /\ chatStore[id'] = Corrupt => messages' = <<>>
        /\ panoStore[id'] = Corrupt => panoNotes' = <<>>
        /\ (writeFailures' = writeFailures) => ~crashed']_vars

\* C10: a failing write of any persisted item is ignored: it does not leave
\* the persistence effect.
C10_WriteFailureSwallowed ==
  [][writeFailures' > writeFailures => ~crashed']_vars

(* Notes: the page is loaded on a chat an earlier session left in the
   storage, one user message of any text and one reply, and notes are saved
   from the messages and through the form. *)
AllTexts == UNION {[1..n -> Tokens] : n \in 0..MaxTextLen}

\* the chat an earlier session persisted after a send of text t
EarlierChat(t) ==
  <<UserMessage(0, t, IF Trim(t) = <<>>
                      THEN <<[file |-> "photo.png", type |-> MimeType("photo.png")]>>
                      ELSE <<>>),
    [Placeholder(ToString(1)) EXCEPT !.text = <<"b">>]>>

InitNotes ==
  /\ mounted = FALSE
  /\ crashed = FALSE
  /\ id = "A"
  /\ messages = <<>>
  /\ input = <<>>
  /\ attachments = <<>>
  /\ isLoading = FALSE
  /\ isGeneratingMedia = "none"
  /\ chatSession = NoSession
  /\ selectedModel = DEFAULT_MODEL
  /\ manualNoteText = <<>>
  /\ panoNotes = <<>>
  /\ \E t \in AllTexts : chatStore = [b \in Bots |-> JSONstringify(EarlierChat(t))]
  /\ modelStore = [b \in Bots |-> [present |-> TRUE, val |-> DEFAULT_MODEL]]
  /\ panoStore = [b \in Bots |-> JSONstringify(<<>>)]
  /\ reading = {}
  /\ sends = <<>>
  /\ now = 0
  /\ sendCount = 0
  /\ mountCount = 0
  /\ writeFailures = 0
  /\ linkToConfirm = "none"
  /\ navigations = <<>>
  /\ queued = <<>>

NextNotes ==
  \/ \E w \in NoFailure : Mount("A", w)
  \/ \E t \in ManualTexts : SetManualNoteText(t)
  \/ \E k \in 1..2, w \in NoFailure : handleSaveToPano(k, w)
  \/ \E w \in NoFailure : handleManualNoteSave(w)

SpecNotes == InitNotes /\ [][NextNotes]_vars

\* position i of t starts a match of \[GENERATE_(IMAGE|VIDEO):\s*.*?\] that
\* ends at position j: an opener, blanks and line breaks, then no line
\* break up to the first "]"
MatchesFromTo(t, i, j) ==
  /\ t[i] \in {IMAGE_OPEN, VIDEO_OPEN}
  /\ t[j] = "]"
  /\ \A m \in (i + 1)..(j - 1) : t[m] # "]"
  /\ \E sp \in i..(j - 1) :
       /\ \A m \in (i + 1)..sp : t[m] \in WhiteSpace
       /\ \A m \in (sp + 1)..(j - 1) : t[m] # "\n"

\* the positions of t that a left-to-right pass from position i removes
RECURSIVE RemovedFrom(_, _)
RemovedFrom(t, i) ==
  IF i > Len(t) THEN {}
  ELSE IF \E j \in (i + 1)..Len(t) : MatchesFromTo(t, i, j)
       THEN LET j == CHOOSE j \in (i + 1)..Len(t) : MatchesFromTo(t, i, j)
            IN (i..j) \cup RemovedFrom(t, j + 1)
       ELSE RemovedFrom(t, i + 1)

\* t without the generation directives
WithoutDirectives(t) ==
  LET removed == RemovedFrom(t, 1)
      keep == {p \in 1..Len(t) : p \notin removed}
      nth(n) == CHOOSE p \in keep : Cardinality({q \in keep : q < p}) = n - 1
  IN [n \in 1..Cardinality(keep) |-> t[nth(n)]]

\* u without its leading and trailing blanks and line breaks
Stripped(u) ==
  LET solid == {p \in 1..Len(u) : u[p] \notin WhiteSpace}
  IN IF solid = {} THEN <<>>
     ELSE SubSeq(u, CHOOSE p \in solid : \A q \in solid : p <= q,
                    CHOOSE p \in solid : \A q \in solid : q <= p)

\* the step put a note of text x and source src in front of the notes, or
\* nothing when x is empty
Inserted(x, src) ==
  IF x = <<>> THEN UNCHANGED panoNotes
  ELSE /\ Len(panoNotes') = Len(panoNotes) + 1
       /\ panoNotes'[1].text = x
       /\ panoNotes'[1].source = src
       /\ Tail(panoNotes') = panoNotes

SaveAttempt(k) == \E w \in NoFailure : handleSaveToPano(k, w)
ManualAttempt == \E w \in NoFailure : handleManualNoteSave(w)

\* C8 as stated: a note saved from a message has the message text with the
\* directives removed (not trimmed), a note saved through the form has the
\* trimmed form text; each goes to index 0 before the previous notes, and an
\* empty text inserts nothing.
C8_NoteInsertedUntrimmed ==
  /\ \A k \in 1..Len(messages) :
       ~ENABLED (SaveAttempt(k) /\ ~Inserted(WithoutDirectives(messages[k].text), "bot"))
  /\ ~ENABLED (ManualAttempt /\ ~Inserted(Stripped(manualNoteText), "user"))

\* C8, amended: a note saved from a message has the message text with the
\* directives removed and then trimmed, a note saved through the form has the
\* trimmed form text; each goes to index 0 before the previous notes in their
\* order, and a save whose trimmed text is empty inserts nothing.
C8_NoteInserted ==
  /\ \A k \in 1..Len(messages) :
       ~ENABLED (SaveAttempt(k)
                 /\ ~Inserted(Stripped(WithoutDirectives(messages[k].text)), "bot"))
  /\ ~ENABLED (ManualAttempt /\ ~Inserted(Stripped(manualNoteText), "user"))

\* a note saved from a message that holds a directive stands in front of a
\* note saved through the form
C8_Witness ==
  /\ Len(panoNotes) = 2
  /\ panoNotes[2].source = "user"
  /\ panoNotes[1].source = "bot"
  /\ WithoutDirectives(messages[1].text) # messages[1].text
  /\ panoNotes[1].text = Stripped(WithoutDirectives(messages[1].text))

(* ---------------- code artifacts ---------------- *)
(* Text that holds code uses more tokens: FENCE is the literal of three
   backquotes, a word token is a run of \w characters, "." and "-" are
   characters a file name can hold besides \w, "//" and ":" are themselves.
   Adjacent word tokens are one longer word.  A name is a sequence of
   tokens. *)
FENCE == "F"
WordTokens == {"html", "HTML", "js", "css", "foo", "FOO", "constructor",
               "filename", "FILENAME", "app", "ts", "x", "a", "b", "c"}
NameTokens == WordTokens \cup {".", "-"}

\* String.prototype.toLowerCase, token by token
LowerToken(t) ==
  CASE t = "HTML" -> "html"
    [] t = "FOO" -> "foo"
    [] t = "FILENAME" -> "filename"
    [] OTHER -> t
toLowerCase(s) == [i \in 1..Len(s) |-> LowerToken(s[i])]

\* index of the first tok of s, 0 when there is none
IndexOf(s, tok) ==
  IF \E i \in 1..Len(s) : s[i] = tok
  THEN CHOOSE i \in 1..Len(s) : s[i] = tok /\ \A j \in 1..(i - 1) : s[j] # tok
  ELSE 0

\* the longest prefix of s made of tokens of S
RECURSIVE TakeWhile(_, _)
TakeWhile(s, S) ==
  IF s = <<>> THEN <<>>
  ELSE IF Head(s) \in S THEN <<Head(s)>> \o TakeWhile(Tail(s), S) ELSE <<>>

\* lines 164 and 364: text.split(/(```[\s\S]*?```)/g): the parts between the
\* fenced regions and the fenced regions, alternating
RECURSIVE SplitFences(_)
SplitFences(s) ==
  LET i == IndexOf(s, FENCE)
      j == IF i = 0 THEN 0 ELSE IndexOf(SubSeq(s, i + 1, Len(s)), FENCE)
  IN IF i = 0 \/ j = 0 THEN <<s>>
     ELSE <<SubSeq(s, 1, i - 1), SubSeq(s, i, i + j)>>
            \o SplitFences(SubSeq(s, i + j + 1, Len(s)))

\* line 167: part.match(/```(\w+)?\n?([\s\S]*?)```/): matched, group 1 and
\* group 2
BlockMatch(part) ==
  LET i == IndexOf(part, FENCE)
      rest == SubSeq(part, i + 1, Len(part))
      j == IF i = 0 THEN 0 ELSE IndexOf(rest, FENCE)
      tag == TakeWhile(rest, WordTokens)
      afterTag == SubSeq(rest, Len(tag) + 1, j - 1)
  IN IF i = 0 \/ j = 0
     THEN [matched |-> FALSE, tag |-> <<>>, content |-> <<>>]
     ELSE [matched |-> TRUE, tag |-> tag,
           content |-> IF afterTag # <<>> /\ Head(afterTag) = "\n"
                       THEN Tail(afterTag) ELSE afterTag]

\* line 315: code.split('\n')[0]
FirstLine(code) ==
  IF IndexOf(code, "\n") = 0 THEN code ELSE SubSeq(code, 1, IndexOf(code, "\n") - 1)

\* line 315: group 1 of /\/\/\s*filename:\s*([a-zA-Z0-9._-]+)/i when the
\* match starts at position p of the line, <<>> when it does not match there
DirectiveAt(line, p) ==
  LET b == TrimLeft(SubSeq(line, p + 1, Len(line)))
  IN IF line[p] = "//" /\ Len(b) >= 2 /\ LowerToken(b[1]) = "filename" /\ b[2] = ":"
     THEN TakeWhile(TrimLeft(SubSeq(b, 3, Len(b))), NameTokens)
     ELSE <<>>

\* line 317: extMap[key].  extMap is an object literal, so the lookup also
\* finds what every object inherits: `constructor` (the function Object) and
\* `__proto__` (Object.prototype).  <<>> stands for undefined.
FUNCTION_OBJECT == "function Object() { [native code] }"
extMap(key) ==
  CASE key = <<"html">> -> <<"index.html">>
    [] key = <<"js">> -> <<"script.js">>
    [] key = <<"css">> -> <<"style.css">>
    [] key = <<"constructor">> -> <<FUNCTION_OBJECT>>
    [] key = <<"__proto__">> -> <<"[object Object]">>
    [] OTHER -> <<>>

\* lines 314-319
getFilenameFromCode(code, lang) ==
  LET line == FirstLine(code)
      hits == {p \in 1..Len(line) : DirectiveAt(line, p) # <<>>}
  IN IF hits # {}
     THEN DirectiveAt(line, CHOOSE p \in hits : \A q \in hits : p <= q)
     ELSE IF extMap(toLowerCase(lang)) # <<>>
          THEN extMap(toLowerCase(lang))
          ELSE <<"file.">> \o (IF lang = <<>> THEN <<"txt">> ELSE lang)

\* lines 169-171: the file name and the content of a matched part
FileOf(part) ==
  LET match == BlockMatch(part)
      lang == toLowerCase(match.tag)
      content == Trim(match.content)
  IN [name |-> getFilenameFromCode(content, lang), content |-> content]

\* line 172: currentFiles[fileName] = content.  The keys of an object keep
\* the order of their first assignment.
SetFile(files, f) ==
  IF \E i \in 1..Len(files) : files[i].name = f.name
  THEN [i \in 1..Len(files) |-> IF files[i].name = f.name THEN f ELSE files[i]]
  ELSE Append(files, f)

\* lines 165-174: the files of one message text
RECURSIVE FilesOfParts(_, _)
FilesOfParts(parts, files) ==
  IF parts = <<>> THEN files
  ELSE FilesOfParts(Tail(parts),
                    IF BlockMatch(Head(parts)).matched
                    THEN SetFile(files, FileOf(Head(parts))) ELSE files)

\* lines 161-179: the groups in the order they are pushed
RECURSIVE Groups(_, _)
Groups(m, groups) ==
  IF m = <<>> THEN groups
  ELSE LET msg == Head(m)
           files == FilesOfParts(SplitFences(msg.text), <<>>)
       IN Groups(Tail(m),
                 IF msg.role = "model" /\ Includes(msg.text, FENCE) /\ Len(files) > 0
                 THEN Append(groups, [id |-> msg.id,
                                      title |-> <<"Artifact #", Len(groups) + 1>>,
                                      files |-> files])
                 ELSE groups)

\* line 180: groups.reverse()
Reverse(s) == [i \in 1..Len(s) |-> s[Len(s) + 1 - i]]

\* lines 160-181: the artifact groups of the message list
projectGroups == Reverse(Groups(messages, <<>>))

(* Artifacts: the page is loaded on a chat an earlier session left in the
   storage, a question and a reply that holds code, and further replies are
   streamed. *)
CodeTags == {<<>>, <<"html">>, <<"HTML">>, <<"js">>, <<"css">>, <<"foo">>, <<"FOO">>,
             <<"constructor">>}
CodeBodies ==
  {<<"x">>,
   <<"//", " ", "filename", ":", " ", "app", ".", "ts", "\n", "x">>,
   <<"//", "FILENAME", ":", "app", ".", "ts">>,
   <<"x", " ", "//", "filename", ":", " ", "app", "-", "ts">>,
   <<"x", "\n", "//", "filename", ":", "app", ".", "ts">>,
   <<"//", " ", "filename", ":", " ">>}

\* a fenced region as a reply writes it
Block(tag, body) == <<FENCE>> \o tag \o <<"\n">> \o body \o <<"\n", FENCE>>

CodeTexts ==
  {Block(t, b) : t \in CodeTags, b \in CodeBodies}
    \cup {<<"b">>,
          <<"b", FENCE, "js", "\n", "x">>,
          Block(<<"js">>, <<"x">>) \o Block(<<"js">>, <<"a">>),
          Block(<<"js">>, <<"x">>) \o <<"b">> \o Block(<<"css">>, <<"x">>)}
ArtifactInputs == {<<"a">>, Block(<<"js">>, <<"x">>)}
CodeFragments == {<<FENCE, "js", "\n", "x">>, <<"\n", FENCE>>}

\* the chat an earlier session persisted: a question and the reply r
EarlierReply(r) ==
  <<UserMessage(0, <<"a">>, <<>>), [Placeholder(ToString(1)) EXCEPT !.text = r]>>

InitArtifacts ==
  /\ mounted = FALSE
  /\ crashed = FALSE
  /\ id = "A"
  /\ messages = <<>>
  /\ input = <<>>
  /\ attachments = <<>>
  /\ isLoading = FALSE
  /\ isGeneratingMedia = "none"
  /\ chatSession = NoSession
  /\ selectedModel = DEFAULT_MODEL
  /\ manualNoteText = <<>>
  /\ panoNotes = <<>>
  /\ \E r \in CodeTexts : chatStore = [b \in Bots |-> JSONstringify(EarlierReply(r))]
  /\ modelStore = [b \in Bots |-> [present |-> TRUE, val |-> DEFAULT_MODEL]]
  /\ panoStore = [b \in Bots |-> JSONstringify(<<>>)]
  /\ reading = {}
  /\ sends = <<>>
  /\ now = 0
  /\ sendCount = 0
  /\ mountCount = 0
  /\ writeFailures = 0
  /\ linkToConfirm = "none"
  /\ navigations = <<>>
  /\ queued = <<>>

NextArtifacts ==
  \/ \E w \in NoFailure : Mount("A", w)
  \/ \E t \in ArtifactInputs : SetInput(t)
  \/ \E t2 \in 0..MaxClock, w \in NoFailure : send(t2, w)
  \/ \E i \in 1..MaxSends, c \in CodeFragments, w \in NoFailure : onChunk(i, c, w)
  \/ \E i \in 1..MaxSends : StreamDone(i)
  \/ \E w \in NoFailure : ResetChat(w)

SpecArtifacts == InitArtifacts /\ [][NextArtifacts]_vars

\* position n of the line starts the name of a filename directive that
\* starts at position p: `//`, blanks, `filename` in any case, `:`, blanks
NameOfDirective(line, p, n) ==
  /\ line[p] = "//"
  /\ line[n] \in NameTokens
  /\ \E f \in (p + 1)..(n - 2) :
       /\ \A m \in (p + 1)..(f - 1) : line[m] = " "
       /\ line[f] \in {"filename", "FILENAME"}
       /\ line[f + 1] = ":"
       /\ \A m \in (f + 2)..(n - 1) : line[m] = " "

\* the name of the fenced region of tag `tag` (as written) and content
\* `content` is `name`
NamedAsClaimed(tag, content, name) ==
  LET ends == {e \in 1..Len(content) : content[e] = "\n"}
      last == IF ends = {} THEN Len(content)
              ELSE (CHOOSE e \in ends : \A d \in ends : e <= d) - 1
      line == SubSeq(content, 1, last)
      starts == {pn \in (1..last) \X (1..last) : NameOfDirective(line, pn[1], pn[2])}
  IN IF starts # {}
     THEN LET pn == CHOOSE x \in starts : \A y \in starts : x[1] <= y[1]
              stop == CHOOSE e \in pn[2]..last :
                        /\ \A m \in pn[2]..e : line[m] \in NameTokens
                        /\ (e = last \/ line[e + 1] \notin NameTokens)
          IN name = SubSeq(line, pn[2], stop)
     ELSE IF tag \in {<<"html">>, <<"HTML">>} THEN name = <<"index.html">>
     ELSE IF tag = <<"js">> THEN name = <<"script.js">>
     ELSE IF tag = <<"css">> THEN name = <<"style.css">>
     ELSE IF tag # <<>> THEN name = <<"file.">> \o tag
     ELSE TRUE

\* C11: the artifact name of every fenced region of a reply is the name of
\* the filename directive of its first line when there is one, whatever the
\* tag; otherwise index.html, script.js or style.css for the tags html, js
\* and css in any case; otherwise file.<tag>.
C11_ArtifactName ==
  \A k \in 1..Len(messages) :
    messages[k].role = "model" =>
      \A i \in 1..Len(SplitFences(messages[k].text)) :
        LET part == SplitFences(messages[k].text)[i]
        IN BlockMatch(part).matched =>
             NamedAsClaimed(BlockMatch(part).tag, BlockMatch(part).content,
                            FileOf(part).name)

(* ---------------- links ---------------- *)
(* A link of a text is one token: a bare address or a markdown link.  The
   browser is part of the model: a click whose default action is not
   prevented makes the browser follow the href of the anchor.  navigations
   lists what was opened, and how. *)
MaxNavigations == 2
WWW_URL == "www.example.com/path"
HTTP_URL == "https://example.com"
MD_LINK == "[site](https://example.org)"
LinkTokens == {WWW_URL, HTTP_URL, MD_LINK}

\* url.startsWith('www.')
StartsWithWww(url) == url \in {WWW_URL}

\* lines 275 and 351: the address with the scheme put in front
WithHttps(url) == IF StartsWithWww(url) THEN "https://" \o url ELSE url

\* line 347: group 2 of the match of a markdown link
MarkdownTarget(part) == IF part = MD_LINK THEN "https://example.org" ELSE part

\* lines 346-353: the anchor of a link token: its href and the address its
\* onClick hands to handleLinkClick
Anchor(part) ==
  IF part = MD_LINK
  THEN [href |-> MarkdownTarget(part), url |-> MarkdownTarget(part)]
  ELSE [href |-> WithHttps(part), url |-> WithHttps(part)]

\* lines 363-364 and 383: the anchors of a message, in order: the links of
\* the text outside the fenced regions, directives removed
RECURSIVE AnchorsOfPart(_)
AnchorsOfPart(part) ==
  IF part = <<>> THEN <<>>
  ELSE (IF Head(part) \in LinkTokens THEN <<Anchor(Head(part))>> ELSE <<>>)
         \o AnchorsOfPart(Tail(part))

RECURSIVE AnchorsOfParts(_)
AnchorsOfParts(parts) ==
  IF parts = <<>> THEN <<>>
  ELSE (IF BlockMatch(Head(parts)).matched THEN <<>> ELSE AnchorsOfPart(Head(parts)))
         \o AnchorsOfParts(Tail(parts))

Anchors(msg) == AnchorsOfParts(SplitFences(CleanText(msg.text)))

\* the mouse events of a click
ClickEvents ==
  [button : {0, 1}, ctrlKey : BOOLEAN, metaKey : BOOLEAN, shiftKey : BOOLEAN,
   altKey : BOOLEAN]

\* line 273 without the test of the shift key
IsPlainClick_NoShiftTest(e) ==
  e.button = 0 /\ ~e.ctrlKey /\ ~e.metaKey /\ ~e.altKey

\* line 273
IsPlainClick(e) ==
  e.button = 0 /\ ~e.ctrlKey /\ ~e.metaKey /\ ~e.shiftKey /\ ~e.altKey

\* lines 272-278 and the default action of the browser: the anchor a, one of
\* those on the page, is clicked
handleLinkClick(a, e) ==
  /\ Alive
  /\ IF IsPlainClick(e)
     THEN /\ linkToConfirm' = WithHttps(a.url)
          /\ UNCHANGED navigations
     ELSE /\ Len(navigations) < MaxNavigations
          /\ navigations' = Append(navigations, [url |-> a.href, by |-> "browser"])
          /\ UNCHANGED linkToConfirm
  /\ UNCHANGED <<mounted, crashed, id, messages, input, attachments, isLoading,
                 isGeneratingMedia, chatSession, selectedModel, manualNoteText,
                 panoNotes, chatStore, modelStore, panoStore, reading, sends,
                 now, sendCount, mountCount, writeFailures, queued>>

\* line 535, second button: the confirm button of the link dialog
ConfirmLink ==
  /\ Alive
  /\ linkToConfirm # "none"
  /\ Len(navigations) < MaxNavigations
  /\ navigations' = Append(navigations, [url |-> linkToConfirm, by |-> "window.open"])
  /\ linkToConfirm' = "none"
  /\ UNCHANGED <<mounted, crashed, id, messages, input, attachments, isLoading,
                 isGeneratingMedia, chatSession, selectedModel, manualNoteText,
                 panoNotes, chatStore, modelStore, panoStore, reading, sends,
                 now, sendCount, mountCount, writeFailures, queued>>

\* line 535, first button: the cancel button of the link dialog
CancelLink ==
  /\ Alive
  /\ linkToConfirm # "none"
  /\ linkToConfirm' = "none"
  /\ UNCHANGED <<mounted, crashed, id, messages, input, attachments, isLoading,
                 isGeneratingMedia, chatSession, selectedModel, manualNoteText,
                 panoNotes, chatStore, modelStore, panoStore, reading, sends,
                 now, sendCount, mountCount, writeFailures, navigations, queued>>

(* Links: the page is loaded on a chat an earlier session left, whose reply
   holds links; the links are clicked, the dialog is answered, the route
   changes and the chat is reset while a target is pending. *)
LinkTexts ==
  {<<"b", WWW_URL>>,
   <<HTTP_URL, " ", MD_LINK>>,
   <<WWW_URL, "\n", MD_LINK, FENCE, HTTP_URL, FENCE>>}

InitLinks ==
  /\ mounted = FALSE
  /\ crashed = FALSE
  /\ id = "A"
  /\ messages = <<>>
  /\ input = <<>>
  /\ attachments = <<>>
  /\ isLoading = FALSE
  /\ isGeneratingMedia = "none"
  /\ chatSession = NoSession
  /\ selectedModel = DEFAULT_MODEL
  /\ manualNoteText = <<>>
  /\ panoNotes = <<>>
  /\ \E r \in LinkTexts : chatStore = [b \in Bots |-> JSONstringify(EarlierReply(r))]
  /\ modelStore = [b \in Bots |-> [present |-> TRUE, val |-> DEFAULT_MODEL]]
  /\ panoStore = [b \in Bots |-> JSONstringify(<<>>)]
  /\ reading = {}
  /\ sends = <<>>
  /\ now = 0
  /\ sendCount = 0
  /\ mountCount = 0
  /\ writeFailures = 0
  /\ linkToConfirm = "none"
  /\ navigations = <<>>
  /\ queued = <<>>

NextLinks ==
  \/ \E b \in Bots, w \in NoFailure : Mount(b, w)
  \/ Unload
  \/ \E b \in Bots, w \in NoFailure : ChangeBot(b, w)
  \/ \E w \in NoFailure : ResetChat(w)
  \/ \E k \in 1..Len(messages) : \E j \in 1..Len(Anchors(messages[k])), e \in ClickEvents :
       handleLinkClick(Anchors(messages[k])[j], e)
  \/ ConfirmLink
  \/ CancelLink

SpecLinks == InitLinks /\ [][NextLinks]_vars

\* the link target of a link of a text: the address itself, the address in
\* the parentheses of a markdown link, with https:// put in front of www.
LinkTarget(tok) ==
  CASE tok = WWW_URL -> "https://www.example.com/path"
    [] tok = HTTP_URL -> "https://example.com"
    [] tok = MD_LINK -> "https://example.org"

\* the links a message shows, in order: those outside the fenced regions
RECURSIVE LinksOutsideCode(_, _)
LinksOutsideCode(t, inCode) ==
  IF t = <<>> THEN <<>>
  ELSE IF Head(t) = FENCE /\ (inCode \/ Includes(Tail(t), FENCE))
       THEN LinksOutsideCode(Tail(t), ~inCode)
       ELSE (IF ~inCode /\ Head(t) \in LinkTokens THEN <<Head(t)>> ELSE <<>>)
              \o LinksOutsideCode(Tail(t), inCode)

RenderedLinks(msg) == LinksOutsideCode(Stripped(WithoutDirectives(msg.text)), FALSE)

PlainLeftClick ==
  [button |-> 0, ctrlKey |-> FALSE, metaKey |-> FALSE, shiftKey |-> FALSE,
   altKey |-> FALSE]
ModifiedClicks ==
  {e \in ClickEvents : e.ctrlKey \/ e.metaKey \/ e.shiftKey \/ e.altKey}

\* the step opens a target with window.open that was not the pending
\* target, or leaves it pending
OpensUnconfirmed ==
  /\ Len(navigations') = Len(navigations) + 1
  /\ navigations'[Len(navigations')].by = "window.open"
  /\ ~ /\ linkToConfirm # "none"
       /\ navigations'[Len(navigations')].url = linkToConfirm
       /\ linkToConfirm' = "none"

\* what a click on a link and the buttons of the dialog do, in any state
ClicksAsClaimed ==
  /\ \A k \in 1..Len(messages) :
       /\ Len(Anchors(messages[k])) = Len(RenderedLinks(messages[k]))
       /\ \A j \in 1..Len(RenderedLinks(messages[k])) :
            \A a \in {Anchors(messages[k])[j]} :
              \A target \in {LinkTarget(RenderedLinks(messages[k])[j])} :
                /\ ~ENABLED (handleLinkClick(a, PlainLeftClick)
                             /\ ~(navigations' = navigations /\ linkToConfirm' = target))
                /\ \A e \in ModifiedClicks :
                     ~ENABLED (handleLinkClick(a, e) /\ linkToConfirm' # linkToConfirm)
  /\ ~ENABLED (CancelLink /\ ~(linkToConfirm' = "none" /\ navigations' = navigations))
  /\ (linkToConfirm # "none" /\ Len(navigations) < MaxNavigations) => ENABLED ConfirmLink

\* C12: a plain left click on a link opens nothing and makes its target
\* (https:// in front of www.) the pending target; a click with a modifier
\* key leaves the pending target as it is; cancel clears the pending target
\* and opens nothing; confirm opens the pending target, and no step opens a
\* target in any other way than the confirmation of the pending one.
C12_NavigationNeedsConfirmation ==
  []ClicksAsClaimed /\ [][~OpensUnconfirmed]_vars

\* a link was followed with a modifier key, then the bare www address was
\* clicked and confirmed, and another target is pending
C12_Witness ==
  /\ Len(navigations) = 2
  /\ navigations[1].by = "browser"
  /\ navigations[2] = [url |-> "https://www.example.com/path", by |-> "window.open"]
  /\ linkToConfirm = "https://example.org"

(* ---------------- the send lifecycle, with fairness ---------------- *)
\* the chat request of a send in flight returns, the image request returns
StreamCompletes == \E i \in 1..MaxSends : StreamDone(i)
ImageCompletes == \E i \in 1..MaxSends, w \in NoFailure : ImageDone(i, w)

(* The send lifecycle when every request that was issued returns: a request
   that stays outstanding is eventually answered, by its result or, before
   that, by a failure.  The compose field holds one text. *)
NextLifecycle ==
  \/ \E b \in Bots, w \in NoFailure : Mount(b, w)
  \/ \E t \in SwitchInputs : SetInput(t)
  \/ Tick
  \/ \E t2 \in 0..MaxClock, w \in NoFailure : send(t2, w)
  \/ \E i \in 1..MaxSends, c \in Fragments, w \in NoFailure : onChunk(i, c, w)
  \/ \E i \in 1..MaxSends : StreamDone(i)
  \/ \E i \in 1..MaxSends, k \in FailureKinds, w \in NoFailure : onError(i, k, w)
  \/ \E i \in 1..MaxSends, w \in NoFailure : ImageDone(i, w)

SpecLifecycle ==
  /\ Init
  /\ [][NextLifecycle]_vars
  /\ WF_vars(StreamCompletes)
  /\ WF_vars(ImageCompletes)

\* C13: every accepted send is followed by a state in which no send is in
\* flight, the loading flag is cleared and the session is there, so that a
\* new send is accepted: after the stream alone, after the image request,
\* after a failure of either.
C13_SendReturnsToIdle ==
  (Len(sends) > 0) ~> (Len(sends) = 0 /\ Alive /\ ~isLoading /\ chatSession # NoSession)

\* the image request of a send failed and the lifecycle is idle again
C13_Witness ==
  /\ Alive
  /\ sendCount > 0
  /\ Len(sends) = 0
  /\ ~isLoading
  /\ isGeneratingMedia = "image"
  /\ \E k \in 1..Len(messages) : messages[k].text \in {<<QUOTA_ERROR>>, <<CONNECTION_ERROR>>}

\* C14: the generation flag is `image` only while the image request of a
\* send is outstanding, and it is none whenever the loading flag is false.
C14_FlagOnlyWhileGenerating ==
  /\ isGeneratingMedia = "image" =>
       \E i \in 1..Len(sends) : sends[i].phase = "image"
  /\ ~isLoading => isGeneratingMedia = "none"

(* Image requests: replies whose fragments open, close and break an image
   directive, for a bot that generates images and one that does not. *)
ImageFragments ==
  {<<IMAGE_OPEN, "c">>, <<"]">>, <<"\n", "]">>, <<VIDEO_OPEN, "c", "]">>}

NextImage ==
  \/ \E b \in Bots, w \in NoFailure : Mount(b, w)
  \/ \E t \in SwitchInputs : SetInput(t)
  \/ Tick
  \/ \E t2 \in 0..MaxClock, w \in NoFailure : send(t2, w)
  \/ \E i \in 1..MaxSends, c \in ImageFragments, w \in NoFailure : onChunk(i, c, w)
  \/ \E i \in 1..MaxSends : StreamDone(i)
  \/ \E i \in 1..MaxSends, k \in FailureKinds, w \in NoFailure : onError(i, k, w)
  \/ \E i \in 1..MaxSends, w \in NoFailure : ImageDone(i, w)

SpecImage == Init /\ [][NextImage]_vars

\* the text holds an image directive: what \[GENERATE_IMAGE:\s*(.*?)\] matches
HasImageDirective(t) ==
  \E i \in 1..Len(t) : \E j \in (i + 1)..Len(t) :
    t[i] = IMAGE_OPEN /\ MatchesFromTo(t, i, j)

\* the step appended one model message of type image with the url, and
\* nothing else of the list changed
ImageAppended(url) ==
  /\ Len(messages') = Len(messages) + 1
  /\ SubSeq(messages', 1, Len(messages)) = messages
  /\ messages'[Len(messages')].role = "model"
  /\ messages'[Len(messages')].type = "image"
  /\ messages'[Len(messages')].mediaUrl = url

\* C15: when the stream of a send ends without error, an image request is
\* issued if and only if the accumulated text holds an image directive and
\* the bot generates images; when the request returns a url, one model
\* message of type image with that url is appended at the end of the list
\* and the rest of the list, the placeholder and its text included, stays.
C15_ImageRequestIffDirective ==
  \A i \in 1..Len(sends) :
    /\ sends[i].phase = "streaming" =>
         ~ENABLED (StreamDone(i)
                   /\ ~((Len(sends') = Len(sends) /\ sends'[i].phase = "image")
                          <=> (HasImageDirective(sends[i].fullText)
                                 /\ sends[i].bot \in ImageBots)))
    /\ sends[i].phase = "image" =>
         /\ ~ENABLED (ImageDone(i, "none") /\ ~ImageAppended("generated.png"))
         /\ \E k \in 1..Len(messages) :
              messages[k].id = sends[i].botMsgId /\ messages[k].text = sends[i].fullText

\* a directive that two fragments made gave an image, and the reply of a
\* later send holds a directive too
C15_Witness ==
  /\ Len(sends) = 1
  /\ sends[1].phase = "streaming"
  /\ sends[1].fullText = <<IMAGE_OPEN, "c", "]">>
  /\ \E k \in 1..Len(messages) :
       messages[k].type = "image" /\ messages[k].mediaUrl = "generated.png"

(* Attachments: files are picked, their reads finish in any order, pending
   attachments are removed and messages are sent in between. *)
NextAttach ==
  \/ \E w \in NoFailure : Mount("A", w)
  \/ \E t \in SwitchInputs : SetInput(t)
  \/ \E f \in Files : handleFileSelect(f)
  \/ \E f \in Files : onloadend(f)
  \/ Render
  \/ \E i \in 1..MaxAttachments : RemoveAttachment(i)
  \/ \E t2 \in 0..MaxClock, w \in NoFailure : send(t2, w)
  \/ \E i \in 1..MaxSends : StreamDone(i)

SpecAttach == Init /\ [][NextAttach]_vars

\* the pending list: the attachments of the last render and those appended
\* since
Pending == attachments \o queued

\* C16: the read of a file that finishes appends that file to the pending
\* list, nothing else appends to it, and an accepted send empties the list
\* and carries in its payload exactly the attachments that were pending.
C16_AttachmentsSentOnce ==
  [][/\ \A f \in Files :
          (f \in reading /\ f \notin reading') =>
            /\ Len(Pending') = Len(Pending) + 1
            /\ SubSeq(Pending', 1, Len(Pending)) = Pending
            /\ Pending'[Len(Pending')].file = f
     /\ Len(Pending') > Len(Pending) => reading' # reading
     /\ sendCount' = sendCount + 1 =>
          /\ Pending' = <<>>
          /\ sends'[Len(sends')].payload.files = Pending]_vars

\* the closed fenced regions of a text: the fences pair up from the left
FencePositions(t) == {p \in 1..Len(t) : t[p] = FENCE}
NumRegions(t) == Cardinality(FencePositions(t)) \div 2

\* the content of the n-th closed fenced region of t: what stands between
\* its fences, after the tag and the line break that follows it, trimmed
RegionContent(t, n) ==
  LET nth(m) == CHOOSE p \in FencePositions(t) :
                  Cardinality({q \in FencePositions(t) : q < p}) = m - 1
      open == nth(2 * n - 1)
      close == nth(2 * n)
      words == {e \in open..(close - 1) : \A m \in (open + 1)..e : t[m] \in WordTokens}
      tagEnd == CHOOSE e \in words : \A d \in words : d <= e
      start == IF tagEnd + 1 < close /\ t[tagEnd + 1] = "\n" THEN tagEnd + 2 ELSE tagEnd + 1
  IN Stripped(SubSeq(t, start, close - 1))

\* the messages that produce a group, in list order
Producers ==
  {k \in 1..Len(messages) : messages[k].role = "model" /\ NumRegions(messages[k].text) > 0}

\* C17: there is one group for each model message with a closed fenced
\* region and no other group; the group of the k-th such message has the
\* title `Artifact #k` and the identifier of the message, and it holds every
\* fenced region of the message.
C17_GroupsFromMessages ==
  /\ Len(projectGroups) = Cardinality(Producers)
  /\ \A k \in Producers :
       LET n == Cardinality({j \in Producers : j <= k})
           text == messages[k].text
       IN \E g \in 1..Len(projectGroups) :
            /\ projectGroups[g].title = <<"Artifact #", n>>
            /\ projectGroups[g].id = messages[k].id
            /\ Len(projectGroups[g].files) = NumRegions(text)
            /\ \A r \in 1..NumRegions(text) :
                 \E f \in 1..Len(projectGroups[g].files) :
                   projectGroups[g].files[f].content = RegionContent(text, r)

(* ---------------- the turns a session is seeded with ---------------- *)
\* the step creates a chat session: the page is loaded, the route changes
\* to another bot, or another model is picked
SessionCreated ==
  /\ mounted' /\ ~crashed'
  /\ ~mounted \/ id' # id \/ selectedModel' # selectedModel

\* the turns of a message list: all but the greeting, the messages without
\* text and the quota-exceeded error
OwnTurns(m) ==
  LET kept == SelectSeq(m, LAMBDA x : x.id # INIT_ID /\ x.text # <<>>
                                      /\ x.text # <<QUOTA_ERROR>>)
  IN [i \in 1..Len(kept) |-> [role |-> kept[i].role, text |-> kept[i].text]]

\* C18: a session created on mount, on a change of the bot identifier or on
\* a change of the model belongs to the current bot and is seeded with the
\* turns of the current bot's message list, in list order.
C18_SeededWithOwnTurns ==
  [][SessionCreated =>
        /\ chatSession'.bot = id'
        /\ chatSession'.history = OwnTurns(messages')]_vars
====
